---------------------------- MODULE Spec2Model ----------------------------
(***************************************************************************)
(* Model of the Query Gateway of aws_sql_editor (src/app.py): the Flask    *)
(* handlers, the process-wide name _current_db and the calls the handlers  *)
(* make on the shared aws_db_connection object `db`.                       *)
(*                                                                         *)
(* A text (a Python str) is a sequence of characters; a character is a     *)
(* one-code-point token such as "a", " " or "U+2026".                      *)
(***************************************************************************)
EXTENDS Integers, Sequences, FiniteSets

VARIABLES
    DB_NAME,       \* the environment variable DB_NAME read at import time
    _current_db,   \* module global _current_db (app.py:13)
    resp,          \* the response of the request being served, until it is sent
    lastOk,        \* history, serving one request at a time: the `name` field of
                   \* the latest successful connect request
    pc,            \* per worker thread: position inside api_connect_to
    dbname,        \* per worker thread: the local variable dbname
    cresp,         \* per worker thread: the response api_connect_to is building or gave
    switched       \* history: argument of the latest db.connect_to that returned

vars == <<DB_NAME, _current_db, resp, lastOk, pc, dbname, cresp, switched>>

-----------------------------------------------------------------------------
(* Bounds of the model *)

\* longest text of a request field (`name`, `query`)
MaxFieldLen == 2
\* most columns of a query result
MaxCols == 2
\* most rows of a query result
MaxRows == 2
\* how far past the clip limit the longest cell reaches
MaxOver == 2
\* most tables in a schema
MaxTables == 3
\* worker threads serving connect requests concurrently
MaxThreads == 2

\* app.py:108, the length above which api_sql clips a cell
ClipLimit == 2000

-----------------------------------------------------------------------------
(* Python values and texts *)

Ellipsis == "U+2026"

\* the characters str.strip() removes, among those the model uses
IsSpace(c) == c \in {" ", "\t", "\n"}

\* code points, for the order Python compares str by
Ord(c) ==
    CASE c = "\t" -> 9
      [] c = "\n" -> 10
      [] c = " " -> 32
      [] c = "-" -> 45
      [] c = "B" -> 66
      [] c = "_" -> 95
      [] c = "a" -> 97
      [] c = "b" -> 98
      [] OTHER -> 120

\* the texts of length at most n over alphabet A
RECURSIVE TextsUpTo(_, _)
TextsUpTo(A, n) ==
    IF n = 0 THEN {<<>>}
    ELSE LET shorter == TextsUpTo(A, n - 1)
         IN  shorter \cup {Append(t, c) : t \in shorter, c \in A}

\* a JSON / Python value: None, a missing key, a str or an int
None == [kind |-> "none", s |-> <<>>, n |-> 0]
Missing == [kind |-> "missing", s |-> <<>>, n |-> 0]
StrVal(t) == [kind |-> "str", s |-> t, n |-> 0]
IntVal(i) == [kind |-> "int", s |-> <<>>, n |-> i]

RECURSIVE LStrip(_)
LStrip(s) ==
    IF s = <<>> THEN s
    ELSE IF IsSpace(Head(s)) THEN LStrip(Tail(s)) ELSE s

RECURSIVE RStrip(_)
RStrip(s) ==
    IF s = <<>> THEN s
    ELSE IF IsSpace(s[Len(s)]) THEN RStrip(SubSeq(s, 1, Len(s) - 1)) ELSE s

\* a faulty str.strip() that removes nothing
StripNothing(s) == s

\* str.strip()
Strip(s) == RStrip(LStrip(s))

\* `payload.get(key) or ""` for a payload that is a JSON object or absent
OrEmpty(v) == IF v.kind = "str" THEN v.s ELSE <<>>

DigitChar(d) == CASE d = 0 -> "0" [] d = 1 -> "1" [] d = 2 -> "2" [] d = 3 -> "3"
                  [] d = 4 -> "4" [] d = 5 -> "5" [] d = 6 -> "6" [] d = 7 -> "7"
                  [] d = 8 -> "8" [] OTHER -> "9"

RECURSIVE Digits(_)
Digits(n) == IF n < 10 THEN <<DigitChar(n)>> ELSE Append(Digits(n \div 10), DigitChar(n % 10))

\* str(v) of a str or an int
PyStr(v) ==
    IF v.kind = "str" THEN v.s
    ELSE IF v.n < 0 THEN <<"-">> \o Digits(0 - v.n) ELSE Digits(v.n)

-----------------------------------------------------------------------------
(* The collaborator `db` (aws_db.aws_db_connection): every call either      *)
(* returns a value or raises an exception with a message.                   *)

ErrMsgs == {"connection lost", "permission denied"}

Return(v) == [raised |-> FALSE, msg |-> "", value |-> v]
Raise(m) == [raised |-> TRUE, msg |-> m, value |-> <<>>]

\* one call made on the collaborator: the method, its argument, its outcome
Call(fn, arg, out) == [fn |-> fn, arg |-> arg, out |-> out]

\* create_database, connect_to and execute("SELECT 1") return nothing that is used
VoidOutcomes == {Return(<<>>)} \cup {Raise(m) : m \in ErrMsgs}

postgres == <<"p", "o", "s", "t", "g", "r", "e", "s">>
public == <<"p", "u", "b", "l", "i", "c">>
SELECT_1 == <<"S", "E", "L", "E", "C", "T", " ", "1">>

\* the request fields the model sends: absent, null, and every short text
FieldAlphabet == {"a", " "}
Fields == {Missing, None} \cup {StrVal(t) : t \in TextsUpTo(FieldAlphabet, MaxFieldLen)}

\* the values of DB_NAME: unset, empty, set
EnvValues == {Missing, StrVal(<<>>), StrVal(<<"e", "n", "v">>)}

-----------------------------------------------------------------------------
(* Responses *)

NoBody == [none |-> TRUE]

\* an HTTP response, with the request field it answers and the collaborator
\* calls made while serving it
Response(op, req, status, error, body, calls) ==
    [op |-> op, req |-> req, status |-> status, error |-> error,
     body |-> body, calls |-> calls]

NoResponse == Response("none", Missing, 0, "", NoBody, <<>>)

\* werkzeug's BadRequest, raised out of a handler
BadRequest(op, req, description, calls) ==
    Response(op, req, 400, description, NoBody, calls)

-----------------------------------------------------------------------------
(* Helpers: _exec *)

\* a faulty _exec that runs the statement a second time when it fails
_exec_retry(query, out) ==
    IF query = <<>> \/ Strip(query) = <<>>
    THEN [raised |-> TRUE, error |-> "No query provided.", calls |-> <<>>,
          cols |-> <<>>, rows |-> <<>>, rowcount |-> 0]
    ELSE LET calls == <<Call("execute", query, out)>>
         IN  IF out.raised
             THEN [raised |-> TRUE, error |-> out.msg,
                   calls |-> calls \o <<Call("execute", query, out)>>,
                   cols |-> <<>>, rows |-> <<>>, rowcount |-> 0]
             ELSE LET description == out.value.description
                      cols == IF description.present THEN description.cols ELSE <<>>
                      rows == IF description.present /\ description.cols # <<>>
                              THEN out.value.rows ELSE <<>>
                  IN  [raised |-> FALSE, error |-> "", calls |-> calls,
                       cols |-> cols, rows |-> rows,
                       rowcount |-> out.value.rowcount]

\* a faulty _exec that does not reject an empty query
_exec_unchecked(query, out) ==
    LET calls == <<Call("execute", query, out)>>
    IN  IF out.raised
        THEN [raised |-> TRUE, error |-> out.msg, calls |-> calls,
              cols |-> <<>>, rows |-> <<>>, rowcount |-> 0]
        ELSE LET description == out.value.description
                 cols == IF description.present THEN description.cols ELSE <<>>
                 rows == IF description.present /\ description.cols # <<>>
                         THEN out.value.rows ELSE <<>>
             IN  [raised |-> FALSE, error |-> "", calls |-> calls,
                  cols |-> cols, rows |-> rows, rowcount |-> out.value.rowcount]

\* _exec(query): raises BadRequest, or returns (cols, rows, rowcount); `out` is
\* what the cursor does with the statement: out.value.description is
\* cur.description (absent, or the column names), out.value.rows what
\* cur.fetchall() returns
_exec(query, out) ==
    IF query = <<>> \/ Strip(query) = <<>>
    THEN [raised |-> TRUE, error |-> "No query provided.", calls |-> <<>>,
          cols |-> <<>>, rows |-> <<>>, rowcount |-> 0]
    ELSE LET calls == <<Call("execute", query, out)>>
         IN  IF out.raised
             THEN [raised |-> TRUE, error |-> out.msg, calls |-> calls,
                   cols |-> <<>>, rows |-> <<>>, rowcount |-> 0]
             ELSE LET description == out.value.description
                      cols == IF description.present THEN description.cols ELSE <<>>
                      rows == IF description.present /\ description.cols # <<>>
                              THEN out.value.rows ELSE <<>>
                  IN  [raised |-> FALSE, error |-> "", calls |-> calls,
                       cols |-> cols, rows |-> rows,
                       rowcount |-> out.value.rowcount]

-----------------------------------------------------------------------------
(* DB mgmt APIs *)

\* api_list_databases(): `out` is the outcome of db.list_databases(), `cur` the
\* value of _current_db the handler reads
api_list_databases(out, cur) ==
    LET calls == <<Call("list_databases", <<>>, out)>>
    IN  IF out.raised
        THEN Response("list", Missing, 400, out.msg, NoBody, calls)
        ELSE Response("list", Missing, 200, "",
                      [databases |-> out.value, current |-> cur], calls)

\* api_create_database(): `name` is payload.get("name")
api_create_database(name, out) ==
    LET db_name == Strip(OrEmpty(name))
    IN  IF db_name = <<>>
        THEN BadRequest("create", name, "Database name is required.", <<>>)
        ELSE LET calls == <<Call("create_database", db_name, out)>>
             IN  IF out.raised
                 THEN Response("create", name, 400, out.msg, NoBody, calls)
                 ELSE Response("create", name, 200, "",
                               [ok |-> TRUE, created |-> db_name], calls)

\* a faulty api_connect_to that writes _current_db before db.connect_to returns
api_connect_to_early_write(name, out, cur) ==
    LET db_name == Strip(OrEmpty(name))
    IN  IF db_name = <<>>
        THEN [resp |-> BadRequest("connect", name, "Database name is required.", <<>>),
              current_db |-> cur]
        ELSE LET calls == <<Call("connect_to", db_name, out)>>
             IN  IF out.raised
                 THEN [resp |-> Response("connect", name, 400, out.msg, NoBody, calls),
                       current_db |-> db_name]
                 ELSE [resp |-> Response("connect", name, 200, "",
                                         [ok |-> TRUE, current |-> db_name], calls),
                       current_db |-> db_name]

\* api_connect_to() run without interruption: the response and the new value
\* of _current_db
api_connect_to(name, out, cur) ==
    LET db_name == Strip(OrEmpty(name))
    IN  IF db_name = <<>>
        THEN [resp |-> BadRequest("connect", name, "Database name is required.", <<>>),
              current_db |-> cur]
        ELSE LET calls == <<Call("connect_to", db_name, out)>>
             IN  IF out.raised
                 THEN [resp |-> Response("connect", name, 400, out.msg, NoBody, calls),
                       current_db |-> cur]
                 ELSE [resp |-> Response("connect", name, 200, "",
                                         [ok |-> TRUE, current |-> db_name], calls),
                       current_db |-> db_name]

\* a faulty healthz that reports a failure the way the other handlers do
healthz_400(out, cur) ==
    LET calls == <<Call("execute", SELECT_1, out)>>
    IN  IF out.raised
        THEN Response("healthz", Missing, 400, out.msg, [ok |-> FALSE], calls)
        ELSE Response("healthz", Missing, 200, "", [ok |-> TRUE, db |-> cur], calls)

\* healthz()
healthz(out, cur) ==
    LET calls == <<Call("execute", SELECT_1, out)>>
    IN  IF out.raised
        THEN Response("healthz", Missing, 500, out.msg, [ok |-> FALSE], calls)
        ELSE Response("healthz", Missing, 200, "", [ok |-> TRUE, db |-> cur], calls)

-----------------------------------------------------------------------------
(* Tables & Schemas *)

\* Python's a < b on str: by code point, a proper prefix first
RECURSIVE StrLess(_, _)
StrLess(a, b) ==
    IF b = <<>> THEN FALSE
    ELSE IF a = <<>> THEN TRUE
    ELSE IF Ord(Head(a)) < Ord(Head(b)) THEN TRUE
    ELSE IF Ord(Head(a)) > Ord(Head(b)) THEN FALSE
    ELSE StrLess(Tail(a), Tail(b))

\* x put into the sorted sequence s before the first item whose key is greater
RECURSIVE Insert(_, _)
Insert(x, s) ==
    IF s = <<>> THEN <<x>>
    ELSE IF StrLess(x.name, Head(s).name) THEN <<x>> \o s
    ELSE <<Head(s)>> \o Insert(x, Tail(s))

\* a faulty sorted() that keeps the collaborator's order
unsorted(items) == items

\* sorted(mapping.items(), key=lambda kv: kv[0]): a stable sort on the name
RECURSIVE sorted(_)
sorted(items) ==
    IF items = <<>> THEN <<>>
    ELSE Insert(items[Len(items)], sorted(SubSeq(items, 1, Len(items) - 1)))

\* {name: ddl for name, ddl in ordered_items}: a later item replaces an earlier
DictOf(items) ==
    [n \in {items[i].name : i \in 1..Len(items)} |->
        LET last == CHOOSE i \in 1..Len(items) :
                        /\ items[i].name = n
                        /\ \A j \in (i + 1)..Len(items) : items[j].name # n
        IN  items[last].ddl]

\* api_table_schemas(): `schema_arg` is the query parameter, `out` the outcome of
\* db.list_table_schemas(schema=schema), a dict given as its items in the
\* collaborator's order
api_table_schemas(schema_arg, out) ==
    LET schema == IF schema_arg.kind = "str" THEN schema_arg.s ELSE public
        calls == <<Call("list_table_schemas", schema, out)>>
    IN  IF out.raised
        THEN Response("schemas", schema_arg, 400, out.msg, NoBody, calls)
        ELSE LET ordered_items == sorted(out.value)
             IN  Response("schemas", schema_arg, 200, "",
                          [schema |-> schema,
                           tables |-> [i \in 1..Len(ordered_items) |-> ordered_items[i].name],
                           ddl |-> DictOf(ordered_items)],
                          calls)

-----------------------------------------------------------------------------
(* SQL & CSV *)

\* a faulty clip that cuts at the limit itself
clip_early(v) ==
    LET s == IF v.kind = "none" THEN <<>> ELSE PyStr(v)
    IN  IF Len(s) < ClipLimit THEN s ELSE Append(SubSeq(s, 1, ClipLimit), Ellipsis)

\* clip(v) of api_sql
clip(v) ==
    LET s == IF v.kind = "none" THEN <<>> ELSE PyStr(v)
    IN  IF Len(s) <= ClipLimit THEN s ELSE Append(SubSeq(s, 1, ClipLimit), Ellipsis)

\* api_sql(): `query_field` is payload.get("query")
api_sql(query_field, out) ==
    LET query == Strip(OrEmpty(query_field))
        e == _exec(query, out)
    IN  IF e.raised
        THEN BadRequest("sql", query_field, e.error, e.calls)
        ELSE Response("sql", query_field, 200, "",
                      [columns |-> e.cols,
                       rows |-> [r \in 1..Len(e.rows) |->
                                    [c \in 1..Len(e.rows[r]) |-> clip(e.rows[r][c])]],
                       rowcount |-> e.rowcount],
                      e.calls)

\* what csv.writer writes for one field: "" for None, str(v) otherwise
csv_field(v) == IF v.kind = "none" THEN <<>> ELSE PyStr(v)

\* w.writerow(row): one more record in the document
writerow(doc, row) == Append(doc, [c \in 1..Len(row) |-> csv_field(row[c])])

\* a faulty writerows that leaves the last row out
writerows_short(doc, rows) ==
    IF rows = <<>> THEN doc
    ELSE doc \o [r \in 1..(Len(rows) - 1) |->
                    [c \in 1..Len(rows[r]) |-> csv_field(rows[r][c])]]

\* w.writerows(rows)
RECURSIVE writerows(_, _)
writerows(doc, rows) ==
    IF rows = <<>> THEN doc
    ELSE writerows(writerow(doc, Head(rows)), Tail(rows))

\* api_sql_csv(): the body is the CSV document as its records
api_sql_csv(query_field, out) ==
    LET query == Strip(OrEmpty(query_field))
        e == _exec(query, out)
    IN  IF e.raised
        THEN BadRequest("csv", query_field, e.error, e.calls)
        ELSE LET header == IF e.cols # <<>>
                           THEN writerow(<<>>, [c \in 1..Len(e.cols) |-> StrVal(e.cols[c])])
                           ELSE <<>>
             IN  Response("csv", query_field, 200, "",
                          [records |-> writerows(header, e.rows),
                           download_name |-> "query_results.csv",
                           mimetype |-> "text/csv"],
                          e.calls)

-----------------------------------------------------------------------------
(* What the collaborator can answer *)

ListOutcomes ==
    {Return(<<>>), Return(<<postgres>>), Return(<<postgres, <<"a">>>>)}
        \cup {Raise(m) : m \in ErrMsgs}

\* a text of n characters, no two neighbours alike
Fill(n) == [i \in 1..n |-> IF i % 2 = 1 THEN "x" ELSE "y"]

\* the cell values: texts around the clip limit, then None, an int, short texts
CellPool ==
    [i \in 1..(MaxOver + 2) |-> StrVal(Fill(ClipLimit + MaxOver + 1 - i))]
        \o <<None, IntVal(0 - 12), StrVal(<<>>), StrVal(<<"a", "\n">>), IntVal(205)>>

ColName(c) == <<"c", DigitChar(c)>>

\* a result set of nc columns and nr rows, its cells taken round the pool from k
ResultSet(nc, nr, k) ==
    [description |-> [present |-> TRUE, cols |-> [c \in 1..nc |-> ColName(c)]],
     rows |-> [r \in 1..nr |->
                 [c \in 1..nc |->
                     CellPool[((k - 1 + (r - 1) * nc + (c - 1)) % Len(CellPool)) + 1]]],
     rowcount |-> nr]

\* a statement that produces no result set: cur.description is None
NoResultSet(rowcount) ==
    [description |-> [present |-> FALSE, cols |-> <<>>], rows |-> <<>>,
     rowcount |-> rowcount]

\* every one-cell result, every shape of result (its cells from None on), one
\* result that mixes long and short cells, and two statements without a result
ResultSets ==
    {ResultSet(1, 1, k) : k \in 1..Len(CellPool)}
        \cup {ResultSet(nc, nr, MaxOver + 3) : nc \in 0..MaxCols, nr \in 0..MaxRows}
        \cup {ResultSet(2, 2, MaxOver + 1)}
        \cup {NoResultSet(0 - 1), NoResultSet(1)}

ExecOutcomes == {Return(t) : t \in ResultSets} \cup {Raise(m) : m \in ErrMsgs}

TableNames == {<<"a">>, <<"B">>, <<"a", "b">>, <<"_">>}

Distinct(q) == \A i, j \in 1..Len(q) : i # j => q[i] # q[j]

\* the sequences of at most n distinct members of S
RECURSIVE Arrangements(_, _)
Arrangements(S, n) ==
    IF n = 0 THEN {<<>>}
    ELSE LET shorter == Arrangements(S, n - 1)
         IN  shorter \cup {r \in {Append(q, x) : q \in shorter, x \in S} : Distinct(r)}

DDL(name, v) == <<"T", DigitChar(v)>> \o name

\* the dicts db.list_table_schemas returns, as their items in insertion order
SchemaOutcomes ==
    {Return([i \in 1..Len(q) |-> [name |-> q[i], ddl |-> DDL(q[i], v)]]) :
        q \in Arrangements(TableNames, MaxTables), v \in 1..2}
        \cup {Raise(m) : m \in ErrMsgs}

\* the `schema` query parameter: absent, empty, given
SchemaArgs == {Missing, StrVal(<<>>), StrVal(<<"s">>)}

-----------------------------------------------------------------------------
(* The gateway serving one request at a time *)

Threads == 1..MaxThreads

\* app.py:13: os.getenv("DB_NAME") or "postgres"
EnvDefault(env) == IF env.kind = "str" /\ env.s # <<>> THEN env.s ELSE postgres

Init ==
    /\ DB_NAME \in EnvValues
    /\ _current_db = EnvDefault(DB_NAME)
    /\ resp = NoResponse
    /\ lastOk = Missing
    /\ pc = [t \in Threads |-> "idle"]
    /\ dbname = [t \in Threads |-> <<>>]
    /\ cresp = [t \in Threads |-> NoResponse]
    /\ switched = Missing

threadVars == <<pc, dbname, cresp, switched>>

\* GET /api/databases
GetDatabases ==
    /\ resp = NoResponse
    /\ \E out \in ListOutcomes : resp' = api_list_databases(out, _current_db)
    /\ UNCHANGED <<DB_NAME, _current_db, lastOk, threadVars>>

\* POST /api/databases
PostDatabases ==
    /\ resp = NoResponse
    /\ \E name \in Fields, out \in VoidOutcomes : resp' = api_create_database(name, out)
    /\ UNCHANGED <<DB_NAME, _current_db, lastOk, threadVars>>

\* POST /api/connect
PostConnect ==
    /\ resp = NoResponse
    /\ \E name \in Fields, out \in VoidOutcomes :
          LET r == api_connect_to(name, out, _current_db)
          IN  /\ resp' = r.resp
              /\ _current_db' = r.current_db
              /\ lastOk' = IF r.resp.status = 200 THEN name ELSE lastOk
              /\ switched' = IF r.resp.status = 200
                             THEN StrVal(r.resp.calls[1].arg) ELSE switched
    /\ UNCHANGED <<DB_NAME, pc, dbname, cresp>>

\* GET /api/table-schemas
GetTableSchemas ==
    /\ resp = NoResponse
    /\ \E schema_arg \in SchemaArgs, out \in SchemaOutcomes :
          resp' = api_table_schemas(schema_arg, out)
    /\ UNCHANGED <<DB_NAME, _current_db, lastOk, threadVars>>

\* POST /api/sql
PostSql ==
    /\ resp = NoResponse
    /\ \E query_field \in Fields, out \in ExecOutcomes : resp' = api_sql(query_field, out)
    /\ UNCHANGED <<DB_NAME, _current_db, lastOk, threadVars>>

\* POST /api/sql/csv
PostSqlCsv ==
    /\ resp = NoResponse
    /\ \E query_field \in Fields, out \in ExecOutcomes :
          resp' = api_sql_csv(query_field, out)
    /\ UNCHANGED <<DB_NAME, _current_db, lastOk, threadVars>>

\* GET /healthz
GetHealthz ==
    /\ resp = NoResponse
    /\ \E out \in VoidOutcomes : resp' = healthz(out, _current_db)
    /\ UNCHANGED <<DB_NAME, _current_db, lastOk, threadVars>>

\* the response goes out and the request is over
Send ==
    /\ resp # NoResponse
    /\ resp' = NoResponse
    /\ UNCHANGED <<DB_NAME, _current_db, lastOk, threadVars>>

Next ==
    \/ GetDatabases
    \/ PostDatabases
    \/ PostConnect
    \/ GetTableSchemas
    \/ PostSql
    \/ PostSqlCsv
    \/ GetHealthz
    \/ Send

Spec == Init /\ [][Next]_vars

-----------------------------------------------------------------------------
(* api_connect_to served by several worker threads at once: a thread may be *)
(* preempted between any two of its statements                              *)

\* lines 66-69: read the payload, strip the name, reject an empty one
ConnectStart(t) ==
    /\ pc[t] = "idle"
    /\ \E name \in Fields :
          LET db_name == Strip(OrEmpty(name))
          IN  IF db_name = <<>>
              THEN /\ cresp' = [cresp EXCEPT ![t] =
                          BadRequest("connect", name, "Database name is required.", <<>>)]
                   /\ UNCHANGED <<pc, dbname>>
              ELSE /\ cresp' = [cresp EXCEPT ![t] =
                          Response("connect", name, 0, "", NoBody, <<>>)]
                   /\ dbname' = [dbname EXCEPT ![t] = db_name]
                   /\ pc' = [pc EXCEPT ![t] = "connect_to"]
    /\ UNCHANGED <<DB_NAME, _current_db, resp, lastOk, switched>>

\* line 71 (and 73-74 when it raises): db.connect_to(dbname)
ConnectSwitch(t) ==
    /\ pc[t] = "connect_to"
    /\ \E out \in VoidOutcomes :
          LET calls == <<Call("connect_to", dbname[t], out)>>
          IN  IF out.raised
              THEN /\ cresp' = [cresp EXCEPT ![t] =
                          Response("connect", cresp[t].req, 400, out.msg, NoBody, calls)]
                   /\ pc' = [pc EXCEPT ![t] = "idle"]
                   /\ UNCHANGED switched
              ELSE /\ cresp' = [cresp EXCEPT ![t].calls = calls]
                   /\ pc' = [pc EXCEPT ![t] = "write"]
                   /\ switched' = StrVal(dbname[t])
    /\ UNCHANGED <<DB_NAME, _current_db, resp, lastOk, dbname>>

\* line 72: _current_db = dbname
ConnectWrite(t) ==
    /\ pc[t] = "write"
    /\ _current_db' = dbname[t]
    /\ pc' = [pc EXCEPT ![t] = "respond"]
    /\ UNCHANGED <<DB_NAME, resp, lastOk, dbname, cresp, switched>>

\* line 75: return jsonify({"ok": True, "current": _current_db})
ConnectRespond(t) ==
    /\ pc[t] = "respond"
    /\ cresp' = [cresp EXCEPT ![t] =
            Response("connect", cresp[t].req, 200, "",
                     [ok |-> TRUE, current |-> _current_db], cresp[t].calls)]
    /\ pc' = [pc EXCEPT ![t] = "idle"]
    /\ UNCHANGED <<DB_NAME, _current_db, resp, lastOk, dbname, switched>>

ThreadNext ==
    \E t \in Threads :
        \/ ConnectStart(t)
        \/ ConnectSwitch(t)
        \/ ConnectWrite(t)
        \/ ConnectRespond(t)

ThreadSpec == Init /\ [][ThreadNext]_vars

-----------------------------------------------------------------------------
(* Properties *)

\* t is raw with its leading and trailing whitespace removed, and nothing else
IsTrimOf(t, raw) ==
    \E i \in 1..(Len(raw) + 1), j \in 0..Len(raw) :
        /\ t = SubSeq(raw, i, j)
        /\ \A k \in 1..(i - 1) : IsSpace(raw[k])
        /\ \A k \in (j + 1)..Len(raw) : IsSpace(raw[k])
        /\ t # <<>> => ~IsSpace(t[1]) /\ ~IsSpace(t[Len(t)])

\* a request field that is missing, null, empty or whitespace-only
Blank(f) == f.kind # "str" \/ \A i \in 1..Len(f.s) : IsSpace(f.s[i])

\* the collaborator raised during the request
CollaboratorFailed(r) == \E i \in 1..Len(r.calls) : r.calls[i].out.raised

\* a is before b in lexicographic order by code point
LexBefore(a, b) ==
    \E k \in 1..(Len(a) + 1) :
        /\ k <= Len(b)
        /\ \A i \in 1..(k - 1) : a[i] = b[i]
        /\ k = Len(a) + 1 \/ Ord(a[k]) < Ord(b[k])

\* C1 as stated: list-databases' `current` and a successful health check's `db`
\* are the name given to the latest successful connect request (the environment
\* default before any), and _current_db is that name
C1_CurrentIsNameGiven ==
    LET expected == IF lastOk = Missing THEN EnvDefault(DB_NAME) ELSE lastOk.s
    IN  /\ _current_db = expected
        /\ resp.op = "list" /\ resp.status = 200 => resp.body.current = expected
        /\ resp.op = "healthz" /\ resp.status = 200 => resp.body.db = expected

\* C1 amended: in a sequential run, list-databases' `current` and a successful
\* health check's `db` are the name given to the latest successful connect
\* request with its leading and trailing whitespace removed (the environment
\* default before any); _current_db always is that name, so a failed connect and
\* every other operation leave it as it was
C1_CurrentIsTrimmedName ==
    LET Expected(t) == IF lastOk = Missing THEN t = EnvDefault(DB_NAME)
                       ELSE t # <<>> /\ IsTrimOf(t, lastOk.s)
    IN  /\ Expected(_current_db)
        /\ resp.op = "list" /\ resp.status = 200 => Expected(resp.body.current)
        /\ resp.op = "healthz" /\ resp.status = 200 => Expected(resp.body.db)

\* list-databases answers after a connect whose name had whitespace around it
C1_Witness ==
    /\ resp.op = "list" /\ resp.status = 200
    /\ lastOk # Missing /\ lastOk.s # resp.body.current

\* C2: a request whose required field is missing, null, empty or whitespace-only
\* is answered 400, with no collaborator call and _current_db as it was
C2_BlankRejected ==
    [][(resp'.op \in {"sql", "csv", "create", "connect"} /\ Blank(resp'.req))
          => /\ resp'.status = 400
             /\ resp'.calls = <<>>
             /\ _current_db' = _current_db]_vars

\* a connect whose name is whitespace only was rejected
C2_Witness ==
    /\ resp.op = "connect" /\ resp.req.kind = "str" /\ resp.req.s # <<>>
    /\ Blank(resp.req) /\ resp.status = 400

\* C3: each JSON cell is the stringified cell when that has at most 2000
\* characters, else its first 2000 characters and one ellipsis; each CSV field
\* is the whole stringified cell
C3_ClipJsonNotCsv ==
    (resp.op \in {"sql", "csv"} /\ resp.status = 200) =>
        LET result == resp.calls[1].out.value
            R == IF result.description.present /\ result.description.cols # <<>>
                 THEN result.rows ELSE <<>>
            h == IF resp.op = "csv" THEN Len(resp.body.records) - Len(R) ELSE 0
            Stringified(v) == IF v = None THEN <<>> ELSE PyStr(v)
        IN  \A r \in 1..Len(R) : \A c \in 1..Len(R[r]) :
                LET s == Stringified(R[r][c])
                IN  IF resp.op = "csv" THEN resp.body.records[h + r][c] = s
                    ELSE LET j == resp.body.rows[r][c]
                         IN  /\ Len(s) <= 2000 => j = s
                             /\ Len(s) > 2000 =>
                                   /\ Len(j) = 2001
                                   /\ \A i \in 1..2000 : j[i] = s[i]
                                   /\ j[2001] = Ellipsis

\* the JSON endpoint answered with a clipped cell
C3_Witness ==
    /\ resp.op = "sql" /\ resp.status = 200
    /\ \E r \in 1..Len(resp.body.rows) : \E c \in 1..Len(resp.body.rows[r]) :
          /\ Len(resp.body.rows[r][c]) = 2001
          /\ Len(resp.calls[1].out.value.rows[r][c].s) > 2001

\* C4 as stated: the statement handed to execute is the request's `query`,
\* character for character
C4_QueryForwardedUnmodified ==
    (resp.op \in {"sql", "csv"} /\ ~Blank(resp.req)) =>
        /\ Len(resp.calls) = 1
        /\ resp.calls[1].fn = "execute"
        /\ resp.calls[1].arg = resp.req.s

\* C4 amended: the statement handed to execute is the request's `query` with
\* its leading and trailing whitespace removed, otherwise character for character
C4_QueryForwardedTrimmed ==
    (resp.op \in {"sql", "csv"} /\ ~Blank(resp.req)) =>
        /\ Len(resp.calls) = 1
        /\ resp.calls[1].fn = "execute"
        /\ IsTrimOf(resp.calls[1].arg, resp.req.s)

\* a query with whitespace around it was executed
C4_Witness ==
    /\ resp.op = "csv" /\ resp.status = 200
    /\ IsSpace(resp.req.s[1])
    /\ resp.calls[1].arg # resp.req.s

\* C5: a successful connect answers with the name it connected to
C5_ResponseNamesOwnConnect ==
    \A t \in Threads :
        (cresp[t].op = "connect" /\ cresp[t].status = 200)
            => cresp[t].body.current = cresp[t].calls[1].arg

\* C6: `tables` is the mapping's keys, each once, in ascending lexicographic
\* order, and `ddl` gives each name the DDL the collaborator gave for it
C6_TablesSorted ==
    (resp.op = "schemas" /\ resp.status = 200) =>
        LET items == resp.calls[1].out.value
            keys == {items[i].name : i \in 1..Len(items)}
            tables == resp.body.tables
        IN  /\ Len(tables) = Cardinality(keys)
            /\ {tables[i] : i \in 1..Len(tables)} = keys
            /\ \A i \in 1..(Len(tables) - 1) : LexBefore(tables[i], tables[i + 1])
            /\ DOMAIN resp.body.ddl = keys
            /\ \A i \in 1..Len(items) : resp.body.ddl[items[i].name] = items[i].ddl

\* the collaborator gave three tables in another order than the response has
C6_Witness ==
    /\ resp.op = "schemas" /\ resp.status = 200
    /\ Len(resp.body.tables) = 3
    /\ resp.body.tables[1] = resp.calls[1].out.value[3].name
    /\ resp.body.tables[3] = resp.calls[1].out.value[2].name

\* C7: a collaborator exception is answered 400 with its message by every
\* operation but the health check, which answers it 500
C7_FailureStatus ==
    CollaboratorFailed(resp) =>
        /\ resp.op = "healthz" => resp.status = 500
        /\ resp.op # "healthz" => resp.status = 400
        /\ resp.error = resp.calls[Len(resp.calls)].out.msg

\* the health check answered a collaborator failure
C7_Witness ==
    /\ resp.op = "healthz" /\ CollaboratorFailed(resp)
    /\ resp.status = 500 /\ resp.error = "connection lost"

\* C8: the CSV document is a header record of the columns exactly when there
\* are columns, then one record per row in the collaborator's row order
C8_CsvRecords ==
    (resp.op = "csv" /\ resp.status = 200) =>
        LET result == resp.calls[1].out.value
            C == IF result.description.present THEN result.description.cols ELSE <<>>
            R == IF C # <<>> THEN result.rows ELSE <<>>
            h == IF C # <<>> THEN 1 ELSE 0
            records == resp.body.records
        IN  /\ Len(records) = h + Len(R)
            /\ h = 1 => records[1] = C
            /\ \A r \in 1..Len(R) :
                  /\ Len(records[h + r]) = Len(R[r])
                  /\ \A c \in 1..Len(R[r]) :
                        records[h + r][c] = IF R[r][c] = None THEN <<>> ELSE PyStr(R[r][c])

\* a result of two columns and two rows gave three records
C8_Witness ==
    /\ resp.op = "csv" /\ resp.status = 200
    /\ Len(resp.calls[1].out.value.description.cols) = 2
    /\ Len(resp.calls[1].out.value.rows) = 2
    /\ Len(resp.body.records) = 3

\* C9: when no connect request is in progress, _current_db is the database the
\* connection was last successfully switched to (the environment default
\* before any switch)
C9_NameIsConnectedDatabase ==
    (\A t \in Threads : pc[t] = "idle") =>
        _current_db = IF switched = Missing THEN EnvDefault(DB_NAME) ELSE switched.s

\* C10: a request calls the collaborator at most once, and not again after a
\* call that raised
C10_NoRetry ==
    /\ Len(resp.calls) <= 1
    /\ \A i \in 1..Len(resp.calls) : resp.calls[i].out.raised => i = Len(resp.calls)

\* a statement failed and the request was answered with the error
C10_Witness ==
    /\ resp.op = "sql" /\ resp.status = 400
    /\ Len(resp.calls) = 1 /\ resp.calls[1].out.raised

=============================================================================
